---- MODULE Spec2Model ----
(***************************************************************************)
(* X4 Python Pipe Server: the supervisor runtime of Main.py (run_server,   *)
(* handle_win32_exception, signal_handler, Server_Process) and the         *)
(* restarting thread of Classes/Server_Thread.py.                          *)
(*                                                                         *)
(* Paths are sequences of path components.  A message is a record         *)
(* [head, items]: head is the text up to and including the first ':' (or   *)
(* the whole text of a message without ':'), items is the rest split at    *)
(* ';' (an empty piece is the empty sequence).                             *)
(***************************************************************************)
EXTENDS Naturals, Sequences, FiniteSets, TLC

VARIABLES
    program,        \* what this OS process runs: "Main", "Server_Thread" or "Pipe"
    test,           \* args.test (Main) / Server_Thread.test
    peer,           \* how the connecting X4 side announces modules: "stock" or "crafted"
    permissions,    \* Main.permissions, the loaded permission map
    pc,             \* position of run_server
    pipe,           \* run_server's local `pipe`
    sessions,       \* number of Pipe_Server objects constructed so far
    x4_root,        \* run_server's local `x4_root`
    root_session,   \* the session (value of `sessions`) in which x4_root was last assigned
    seen_modules,   \* run_server's local `seen_modules`
    processes,      \* run_server's local `processes`
    shutdown,       \* run_server's local `shutdown`
    exc,            \* the exception most recently raised inside run_server's try block
    idx,            \* loop index of the Close / Join loops of the finally block
    msg,            \* run_server's local `msg`: the message the loop body is handling
    thread,         \* the Server_Thread object
    ep,             \* a Pipe_Server / Pipe_Client endpoint used directly (program "Pipe")
    kv,             \* Servers/Test1.py: the key-value test server (program "Test1")
    log_reader      \* a Log_Reader and the file it follows (program "Log_Reader")

vars == <<program, test, peer, permissions, pc, pipe, sessions, x4_root, root_session,
          seen_modules, processes, shutdown, exc, idx, msg, thread, ep, kv, log_reader>>

mainVars == <<pc, pipe, sessions, x4_root, root_session, seen_modules, processes,
              shutdown, exc, idx, msg>>

----------------------------------------------------------------------------
(* Bounds *)

MaxSessions == 2
MaxRuns == 2
MaxAttempts == 3
MaxCloses == 2
MaxMessages == 3
MaxFile == 5
MaxTrims == 2

----------------------------------------------------------------------------
(* Sequences helpers *)

InSeq(x, s) == \E i \in 1..Len(s) : s[i] = x

RECURSIVE FilterNonEmpty(_)
\* [seg for seg in raw.split(';') if seg]
FilterNonEmpty(items) ==
    IF items = <<>> THEN <<>>
    ELSE IF Head(items) = <<>> THEN FilterNonEmpty(Tail(items))
         ELSE <<Head(items)>> \o FilterNonEmpty(Tail(items))

----------------------------------------------------------------------------
(* The world outside the process: installation trees on disk *)

GameRoot == <<"C:/", "Game">>
AltRoot == <<"D:/", "X4">>
NoRoot == <<"<None>">>

mA == <<"extensions", "modA", "script.py">>
mB == <<"extensions", "modB", "main.py">>
mC == <<"extensions", "modC", "nomain.py">>
mD == <<"extensions", "modD", "gone.py">>
mE == <<"extensions", "modE", "denied.py">>
mX == <<"extensions", "modA", "..", "..", "evil", "x.py">>
mO == <<"other", "modA", "script.py">>

\* module files present on disk, with what loading them yields
ModuleFiles ==
    (GameRoot \o mA) :> "main_with_stop" @@
    (GameRoot \o mB) :> "main_no_args" @@
    (GameRoot \o mC) :> "no_main" @@
    (GameRoot \o mE) :> "main_with_stop" @@
    (GameRoot \o <<"evil", "x.py">>) :> "main_no_args" @@
    (GameRoot \o mO) :> "main_no_args" @@
    (AltRoot \o mA) :> "main_with_stop" @@
    (AltRoot \o mB) :> "import_error"

\* content.xml manifests present on disk, with the text after the first id="
ContentFiles ==
    (GameRoot \o <<"extensions", "modA", "content.xml">>) :> "ws_2042901274" @@
    (GameRoot \o <<"extensions", "modB", "content.xml">>) :> "idB" @@
    (GameRoot \o <<"extensions", "modC", "content.xml">>) :> "idC" @@
    (GameRoot \o <<"extensions", "modE", "content.xml">>) :> "idE" @@
    (GameRoot \o <<"other", "modA", "content.xml">>) :> "ws_2042901274" @@
    (AltRoot \o <<"extensions", "modA", "content.xml">>) :> "ws_2042901274" @@
    (AltRoot \o <<"extensions", "modB", "content.xml">>) :> "<no id>"

\* permission maps permissions.json may hold (key -> value); the first is the default
PermissionMaps ==
    { ("ws_2042901274" :> TRUE),
      ("ws_2042901274" :> TRUE @@ "modB" :> TRUE @@ "idC" :> TRUE @@ "idE" :> FALSE),
      ("ws_2042901274" :> FALSE @@ "modA" :> TRUE @@ "idB" :> TRUE @@ "modC" :> TRUE) }

----------------------------------------------------------------------------
(* pathlib *)

Anchors == {"C:/", "D:/", "/"}

\* str.lower() on the component names that occur
Lower(s) ==
    CASE s \in {"lua", "Lua", "LUA"} -> "lua"
      [] s \in {"ui", "Ui", "UI"} -> "ui"
      [] OTHER -> s

\* Path.name: the final component, '' for an anchor or for '.'
Name(p) == IF Len(p) = 0 \/ (Len(p) = 1 /\ p[1] \in Anchors) THEN "" ELSE p[Len(p)]

\* Path.parent
Parent(p) ==
    IF Len(p) = 0 \/ (Len(p) = 1 /\ p[1] \in Anchors) THEN p ELSE SubSeq(p, 1, Len(p) - 1)

\* the length of the first path of [p] + list(p.parents) named lua or ui; 0 if none
RECURSIVE FirstLuaUi(_, _)
FirstLuaUi(p, k) ==
    IF k = 0 THEN 0
    ELSE IF Lower(Name(SubSeq(p, 1, k))) \in {"lua", "ui"} THEN k
         ELSE FirstLuaUi(p, k - 1)

\* the loop over segments without `if x4_root: break`: the last match wins
RECURSIVE ResolveRoot_LastMatch(_, _)
ResolveRoot_LastMatch(segments, root) ==
    IF segments = <<>> THEN root
    ELSE LET p == Head(segments)
             k == FirstLuaUi(p, Len(p))
             r == IF k > 0 THEN Parent(SubSeq(p, 1, k)) ELSE root
         IN  ResolveRoot_LastMatch(Tail(segments), r)

\* the loop over segments of the package.path branch, started with x4_root = root
RECURSIVE ResolveRoot(_, _)
ResolveRoot(segments, root) ==
    IF segments = <<>> THEN root
    ELSE LET p == Head(segments)
             k == FirstLuaUi(p, Len(p))
             r == IF k > 0 THEN Parent(SubSeq(p, 1, k)) ELSE root
         IN  IF r # NoRoot THEN r ELSE ResolveRoot(Tail(segments), r)

\* the file a path names once the operating system has resolved its `..` components
RECURSIVE Collapse(_, _)
Collapse(p, acc) ==
    IF p = <<>> THEN acc
    ELSE IF Head(p) = ".."
         THEN Collapse(Tail(p), IF Len(acc) > 1 THEN SubSeq(acc, 1, Len(acc) - 1) ELSE acc)
         ELSE Collapse(Tail(p), Append(acc, Head(p)))

OsPath(p) == Collapse(p, <<>>)

----------------------------------------------------------------------------
(* Permission check and module loading *)

Truthy(perms, key) == key \in DOMAIN perms /\ perms[key]

\* check_permission with permissions.get(key, True): a key without an entry grants
check_permission_DefaultAllow(x4_path, module_path, perms) ==
    IF ~(Len(module_path) >= 2 /\ module_path[1] = "extensions") THEN FALSE
    ELSE IF Len(module_path) < 3 THEN FALSE
    ELSE LET ext_dir == x4_path \o SubSeq(module_path, 1, 2)
             content == OsPath(ext_dir \o <<"content.xml">>)
         IN  IF content \notin DOMAIN ContentFiles THEN FALSE
             ELSE IF ContentFiles[content] = "<no id>" THEN FALSE
             ELSE LET ext_id == ContentFiles[content]
                      folder == Name(ext_dir)
                  IN  \/ ext_id \notin DOMAIN perms \/ perms[ext_id]
                      \/ folder \notin DOMAIN perms \/ perms[folder]

check_permission(x4_path, module_path, perms) ==
    IF ~(Len(module_path) >= 2 /\ module_path[1] = "extensions") THEN FALSE
    ELSE IF Len(module_path) < 3 THEN FALSE             \* parents[-3]: IndexError
    ELSE LET ext_dir == x4_path \o SubSeq(module_path, 1, 2)
             content_xml == ext_dir \o <<"content.xml">>
             content == OsPath(content_xml)
         IN  IF content \notin DOMAIN ContentFiles THEN FALSE      \* read_text fails
             ELSE IF ContentFiles[content] = "<no id>" THEN FALSE  \* split(...)[1]
             ELSE LET ext_id == ContentFiles[content]
                      folder == Name(ext_dir)
                  IN  Truthy(perms, ext_id) \/ Truthy(perms, folder)

\* import_module followed by hasattr(mod, 'main')
HasMain(full) == ModuleFiles[OsPath(full)] \in {"main_with_stop", "main_no_args"}

\* len(inspect.signature(self._target_fn).parameters) for the kinds of main
Parameters(main_fn) == IF main_fn = "main_with_stop" THEN 1 ELSE 0

\* run_with_stop passing the stop event whatever the signature is
run_with_stop_AlwaysPasses(rel_path, parameters) == <<[stop_event_of |-> rel_path]>>

\* Server_Process.run_with_stop: the arguments main is called with in the child;
\* [stop_event_of |-> rel] stands for self.stop_event of the handle made for rel
run_with_stop(rel_path, parameters) ==
    IF parameters >= 1 THEN <<[stop_event_of |-> rel_path]>> ELSE <<>>

Server_Process(rel_path, main_fn) ==
    [rel |-> rel_path,
     args |-> run_with_stop(rel_path, Parameters(main_fn)),
     name |-> <<"Proc">> \o rel_path,
     takes_stop |-> (main_fn = "main_with_stop"),
     stop_event |-> FALSE,
     alive |-> TRUE,
     join_called |-> FALSE,
     alive_at_timeout |-> FALSE,
     killed_at_exit |-> FALSE,
     status |-> "Running"]

\* DispatchOne without the `if rel_path in seen_modules: continue` test
DispatchOne_NoSeenTest(rel_path, root, st, perms) ==
    LET full == root \o rel_path IN
    IF OsPath(full) \notin DOMAIN ModuleFiles THEN st
    ELSE IF ~check_permission(root, rel_path, perms) THEN st
    ELSE LET seen2 == Append(st.seen, rel_path) IN
         IF ~HasMain(full) THEN [st EXCEPT !.seen = seen2]
         ELSE [seen |-> seen2,
               procs |-> Append(st.procs,
                                Server_Process(rel_path, ModuleFiles[OsPath(full)]))]

\* one iteration of `for rel in rels`, on the pair (seen_modules, processes)
DispatchOne(rel_path, root, st, perms) ==
    LET full == root \o rel_path IN
    IF InSeq(rel_path, st.seen) THEN st
    ELSE IF OsPath(full) \notin DOMAIN ModuleFiles THEN st
    ELSE IF ~check_permission(root, rel_path, perms) THEN st
    ELSE LET seen2 == Append(st.seen, rel_path) IN
         IF ~HasMain(full) THEN [st EXCEPT !.seen = seen2]
         ELSE [seen |-> seen2,
               procs |-> Append(st.procs,
                                Server_Process(rel_path, ModuleFiles[OsPath(full)]))]

RECURSIVE DispatchAll_BreakOnFailure(_, _, _, _)
\* the loop leaving at the first module that is not dispatched
DispatchAll_BreakOnFailure(rels, root, st, perms) ==
    IF rels = <<>> THEN st
    ELSE LET st2 == DispatchOne(Head(rels), root, st, perms) IN
         IF st2.procs = st.procs THEN st2
         ELSE DispatchAll_BreakOnFailure(Tail(rels), root, st2, perms)

RECURSIVE DispatchAll_LastFirst(_, _, _, _)
\* the loop running over the announced paths from the last to the first
DispatchAll_LastFirst(rels, root, st, perms) ==
    IF rels = <<>> THEN st
    ELSE DispatchAll_LastFirst(SubSeq(rels, 1, Len(rels) - 1), root,
                               DispatchOne(rels[Len(rels)], root, st, perms), perms)

RECURSIVE DispatchAll(_, _, _, _)
DispatchAll(rels, root, st, perms) ==
    IF rels = <<>> THEN st
    ELSE DispatchAll(Tail(rels), root, DispatchOne(Head(rels), root, st, perms), perms)

----------------------------------------------------------------------------
(* Messages and exceptions *)

Msg(head, items) == [head |-> head, items |-> items]

PathMsgs ==
    { Msg("package.path:", << <<"?.lua">>, <<"C:/", "Game", "lua", "?.lua">>,
                              <<"C:/", "Game", "lua", "?", "init.lua">>, <<>> >>),
      Msg("package.path:", << <<"D:/", "X4", "UI", "?.lua">>,
                              <<"C:/", "Game", "lua", "?.lua">>, <<>> >>),
      Msg("package.path:", << <<"C:/", "Game", "ui", "core", "Lua", "?.lua">>, <<>> >>),
      Msg("package.path:", << <<"?.lua">>, <<>> >>) }

ModulesMsgs ==
    { Msg("modules:", <<mA, <<>>>>),
      Msg("modules:", <<mB, <<>>, mA, <<>>>>),
      Msg("modules:", <<mA, mA, mB>>),
      Msg("modules:", <<mC, mD, mE, <<>>>>) }

\* announcements of paths that are not of the form extensions/<folder>/<file>
CraftedMsgs == { Msg("modules:", <<mO, mX, <<>>>>) }

PlainMsgs == { Msg("ping", <<>>), Msg("restart", <<>>), Msg("hello", <<>>) }

Sentinel == Msg("garbage_collected", <<>>)
BadBytes == Msg("<invalid utf-8>", <<>>)

Messages == PathMsgs \cup ModulesMsgs \cup CraftedMsgs \cup PlainMsgs

\* the messages a peer of the given kind writes into the pipe
Sent(kind) == IF kind = "crafted" THEN Messages \ ModulesMsgs ELSE Messages \ CraftedMsgs

\* `msg` outside the message loop
NoMsg == Msg("<None>", <<>>)

NoExc == [type |-> "none", funcname |-> "", winerror |-> ""]
Win32Error(funcname, winerror) ==
    [type |-> "win32api.error", funcname |-> funcname, winerror |-> winerror]
Client_Garbage_Collected ==
    [type |-> "Client_Garbage_Collected", funcname |-> "", winerror |-> ""]
OtherException(what) == [type |-> "Exception", funcname |-> what, winerror |-> ""]
KeyboardInterrupt == [type |-> "KeyboardInterrupt", funcname |-> "", winerror |-> ""]

\* what win32file.ReadFile may do on the inbound handle
ReadFileResults ==
    { [ok |-> TRUE, data |-> m, winerror |-> ""] : m \in Messages \cup {Sentinel, BadBytes} }
    \cup { [ok |-> FALSE, data |-> BadBytes, winerror |-> w] :
            w \in {"ERROR_BROKEN_PIPE", "ERROR_NO_DATA", "ERROR_PIPE_NOT_CONNECTED"} }

\* Pipe.read without the test for 'garbage_collected'
PipeRead_ReturnsSentinel(r, nowait_set) ==
    IF r.ok THEN
        IF r.data = BadBytes
        THEN [kind |-> "raise", msg |-> BadBytes, exc |-> OtherException("UnicodeDecodeError")]
        ELSE [kind |-> "return", msg |-> r.data, exc |-> NoExc]
    ELSE IF r.winerror = "ERROR_NO_DATA" /\ nowait_set
        THEN [kind |-> "none", msg |-> BadBytes, exc |-> NoExc]
        ELSE [kind |-> "raise", msg |-> BadBytes, exc |-> Win32Error("ReadFile", r.winerror)]

\* Pipe.read answering None to ERROR_NO_DATA whatever nowait_set is
PipeRead_NoDataAlwaysNone(r, nowait_set) ==
    IF r.ok THEN
        IF r.data = BadBytes
        THEN [kind |-> "raise", msg |-> BadBytes, exc |-> OtherException("UnicodeDecodeError")]
        ELSE IF r.data = Sentinel
        THEN [kind |-> "raise", msg |-> BadBytes, exc |-> Client_Garbage_Collected]
        ELSE [kind |-> "return", msg |-> r.data, exc |-> NoExc]
    ELSE IF r.winerror = "ERROR_NO_DATA"
        THEN [kind |-> "none", msg |-> BadBytes, exc |-> NoExc]
        ELSE [kind |-> "raise", msg |-> BadBytes, exc |-> Win32Error("ReadFile", r.winerror)]

\* Pipe.read on one ReadFile result
PipeRead(r, nowait_set) ==
    IF r.ok THEN
        IF r.data = BadBytes
        THEN [kind |-> "raise", msg |-> BadBytes, exc |-> OtherException("UnicodeDecodeError")]
        ELSE IF r.data = Sentinel
        THEN [kind |-> "raise", msg |-> BadBytes, exc |-> Client_Garbage_Collected]
        ELSE [kind |-> "return", msg |-> r.data, exc |-> NoExc]
    ELSE IF r.winerror = "ERROR_NO_DATA" /\ nowait_set
        THEN [kind |-> "none", msg |-> BadBytes, exc |-> NoExc]
        ELSE [kind |-> "raise", msg |-> BadBytes, exc |-> Win32Error("ReadFile", r.winerror)]

\* handle_win32_exception with the broken-pipe branch missing
handle_win32_exception_NoBrokenPipe(e, isTest) ==
    IF isTest THEN TRUE
    ELSE IF e.type = "Client_Garbage_Collected" THEN FALSE
    ELSE TRUE

\* handle_win32_exception answering "retry" to a failed CreateNamedPipe
handle_win32_exception_RetryCreate(e, isTest) ==
    IF isTest THEN TRUE
    ELSE IF e.type = "Client_Garbage_Collected" THEN FALSE
    ELSE IF e.funcname = "CreateNamedPipe" THEN FALSE
    ELSE IF e.winerror = "ERROR_BROKEN_PIPE" THEN FALSE
    ELSE TRUE

\* handle_win32_exception without the test-mode branch
handle_win32_exception_IgnoresTest(e, isTest) ==
    IF e.type = "Client_Garbage_Collected" THEN FALSE
    ELSE IF e.funcname = "CreateNamedPipe" THEN TRUE
    ELSE IF e.winerror = "ERROR_BROKEN_PIPE" THEN FALSE
    ELSE TRUE

handle_win32_exception(e, isTest) ==
    IF isTest THEN TRUE
    ELSE IF e.type = "Client_Garbage_Collected" THEN FALSE
    ELSE IF e.funcname = "CreateNamedPipe" THEN TRUE
    ELSE IF e.winerror = "ERROR_BROKEN_PIPE" THEN FALSE
    ELSE TRUE

----------------------------------------------------------------------------
(* Pipe_Server as run_server uses it *)

\* `leaked` counts the handles of former Pipe_Server objects that are still open
NoPipe == [exists |-> FALSE, pipe_in |-> "none", pipe_out |-> "none", close_called |-> FALSE,
           leaked |-> 0]
NewPipe == [exists |-> TRUE, pipe_in |-> "open", pipe_out |-> "open", close_called |-> FALSE,
            leaked |-> 0]

OpenHandles(p) ==
    (IF p.pipe_in = "open" THEN 1 ELSE 0) + (IF p.pipe_out = "open" THEN 1 ELSE 0)

\* a former Pipe_Server object that keeps a handle close() did not close
Released_KeepsHandles(p) == p

\* `pipe = None` at the top of the loop drops the last reference to the former
\* Pipe_Server: the PyHANDLEs it holds close their handles when deallocated
Released(p) ==
    [p EXCEPT !.pipe_in = IF @ = "open" THEN "closed" ELSE @,
              !.pipe_out = IF @ = "open" THEN "closed" ELSE @]

\* Pipe_Server.close: per handle, flush + disconnect + CloseHandle inside one try;
\* a Win32Error in it is logged and leaves that handle as it was
PipeClose(p) ==
    { [p EXCEPT !.pipe_in = i, !.pipe_out = o, !.close_called = TRUE] :
        i \in (IF p.pipe_in = "open" THEN {"closed", "open"} ELSE {p.pipe_in}),
        o \in (IF p.pipe_out = "open" THEN {"closed", "open"} ELSE {p.pipe_out}) }

\* `if pipe: pipe.close()` of the finally block
FinallyClose(p) == IF p.exists THEN PipeClose(p) ELSE {p}

----------------------------------------------------------------------------
(* Server_Process.Close / Join *)

ProcClose(w) == [w EXCEPT !.stop_event = TRUE]

\* self.join(timeout): returns when the process has ended or the timeout has elapsed
ProcJoinWait(w) ==
    { [w EXCEPT !.alive = a, !.alive_at_timeout = a, !.join_called = TRUE] :
        a \in (IF w.alive THEN {TRUE, FALSE} ELSE {FALSE}) }

\* Join that only waits, as Server_Thread.Join does: no terminate()
ProcJoinCheck_NoTerminate(w) == [w EXCEPT !.status = "Joined"]

\* if self.is_alive(): self.terminate()
ProcJoinCheck(w) ==
    IF w.alive THEN [w EXCEPT !.alive = FALSE, !.status = "ForceKilled"]
    ELSE [w EXCEPT !.status = "Joined"]

----------------------------------------------------------------------------
(* run_server *)

\* where run_server goes after the pipe.close() of the finally block
AfterFinally(sd, procs) ==
    IF ~sd THEN "create" ELSE IF procs = <<>> THEN "done" ELSE "close_all"

MainRunning == program = "Main" /\ pc \notin {"done", "exited"}

InitMain ==
    /\ pc = "create"
    /\ pipe = NoPipe
    /\ sessions = 0
    /\ x4_root = NoRoot
    /\ root_session = 0
    /\ seen_modules = <<>>
    /\ processes = <<>>
    /\ shutdown = FALSE
    /\ exc = NoExc
    /\ idx = 0
    /\ msg = NoMsg

\* the thread started by `threading.Thread(target=pipe_client_test, ...).start()` in
\* test mode, before it has run; ep is then the Pipe_Client of the thread of the
\* current session
TestThread ==
    [kind |-> "client", pipe_in |-> "none", pipe_out |-> "none", nowait_set |-> FALSE,
     mode_in |-> "wait", mode_out |-> "wait",
     op |-> "started", arg |-> [ok |-> TRUE, data |-> NoMsg, winerror |-> ""],
     result |-> [kind |-> "return", msg |-> BadBytes, exc |-> NoExc],
     attempts |-> 0, closes |-> 0]

\* pipe_client_test: Pipe_Client(PIPE_NAME) and then pipe.write(...) at once, with
\* no pipe.connect() in between: pipe_out is None, WriteFile fails, Pipe.write
\* raises again, and the thread ends before any message has been written
pipe_client_test ==
    /\ MainRunning /\ test
    /\ ep = TestThread
    /\ ep' = [ep EXCEPT !.op = "write",
                        !.arg = [ok |-> FALSE, data |-> BadBytes,
                                 winerror |-> "ERROR_INVALID_HANDLE"],
                        !.result = [kind |-> "raise", msg |-> BadBytes,
                                    exc |-> Win32Error("WriteFile", "ERROR_INVALID_HANDLE")]]
    /\ UNCHANGED <<program, test, peer, permissions, thread, kv, log_reader>>
    /\ UNCHANGED mainVars

\* Create with `seen_modules = []` inside the while loop
Create_ResetsSeen ==
    /\ program = "Main" /\ pc = "create"
    /\ sessions < MaxSessions
    /\ pipe' = [NewPipe EXCEPT !.leaked = pipe.leaked + OpenHandles(Released(pipe))]
    /\ sessions' = sessions + 1
    /\ seen_modules' = <<>>
    /\ pc' = "connect"
    /\ msg' = NoMsg
    /\ ep' = IF test THEN TestThread ELSE ep
    /\ UNCHANGED <<program, test, peer, permissions, x4_root, root_session,
                   processes, shutdown, exc, idx, thread, kv, log_reader>>

\* Create with `processes = []` inside the while loop
Create_ForgetsWorkers ==
    /\ program = "Main" /\ pc = "create"
    /\ sessions < MaxSessions
    /\ pipe' = [NewPipe EXCEPT !.leaked = pipe.leaked + OpenHandles(Released(pipe))]
    /\ sessions' = sessions + 1
    /\ processes' = <<>>
    /\ pc' = "connect"
    /\ msg' = NoMsg
    /\ ep' = IF test THEN TestThread ELSE ep
    /\ UNCHANGED <<program, test, peer, permissions, x4_root, root_session, seen_modules,
                   shutdown, exc, idx, thread, kv, log_reader>>

\* pipe = Pipe_Server(PIPE_NAME, ...) succeeds
Create ==
    /\ program = "Main" /\ pc = "create"
    /\ sessions < MaxSessions
    /\ pipe' = [NewPipe EXCEPT !.leaked = pipe.leaked + OpenHandles(Released(pipe))]
    /\ sessions' = sessions + 1
    /\ pc' = "connect"
    /\ msg' = NoMsg
    /\ ep' = IF test THEN TestThread ELSE ep
    /\ UNCHANGED <<program, test, peer, permissions, x4_root, root_session, seen_modules,
                   processes, shutdown, exc, idx, thread, kv, log_reader>>

\* CreateNamedPipe raises: the name is in use, or access is denied
CreateFails ==
    /\ program = "Main" /\ pc = "create"
    /\ \E w \in {"ERROR_PIPE_BUSY", "ERROR_ACCESS_DENIED"} :
          exc' = Win32Error("CreateNamedPipe", w)
    /\ pipe' = [NoPipe EXCEPT !.leaked = pipe.leaked + OpenHandles(Released(pipe))]
    /\ pc' = "except"
    /\ msg' = NoMsg
    /\ UNCHANGED <<program, test, peer, permissions, sessions, x4_root, root_session,
                   seen_modules, processes, shutdown, idx, thread, ep, kv, log_reader>>

\* Connect with `x4_root = None` hoisted out of the while loop
Connect_KeepsRoot ==
    /\ program = "Main" /\ pc = "connect"
    /\ pc' = "read"
    /\ msg' = NoMsg
    /\ UNCHANGED <<program, test, peer, permissions, pipe, sessions, x4_root, root_session,
                   seen_modules, processes, shutdown, exc, idx, thread, ep, kv, log_reader>>

\* pipe.connect() returns; x4_root = None
Connect ==
    /\ program = "Main" /\ pc = "connect"
    /\ x4_root' = NoRoot
    /\ root_session' = 0
    /\ pc' = "read"
    /\ msg' = NoMsg
    /\ UNCHANGED <<program, test, peer, permissions, pipe, sessions, seen_modules, processes,
                   shutdown, exc, idx, thread, ep, kv, log_reader>>

ConnectFails ==
    /\ program = "Main" /\ pc = "connect"
    /\ exc' = Win32Error("ConnectNamedPipe", "ERROR_NO_DATA")
    /\ pc' = "except"
    /\ UNCHANGED <<program, test, peer, permissions, pipe, sessions, x4_root, root_session,
                   seen_modules, processes, shutdown, idx, msg, thread, ep, kv, log_reader>>

\* what pipe.read() may do
Received ==
    { PipeRead(r, FALSE) : r \in { x \in ReadFileResults :
                                     x.ok /\ x.data \in Messages => x.data \in Sent(peer) } }
Returned == { r.msg : r \in { x \in Received : x.kind = "return" } }

\* `ping` handled as a new handshake: x4_root = None
Ping_ForgetsRoot ==
    /\ program = "Main" /\ pc = "read"
    /\ Msg("ping", <<>>) \in Returned
    /\ msg' = Msg("ping", <<>>)
    /\ x4_root' = NoRoot
    /\ UNCHANGED <<program, test, peer, permissions, pc, pipe, sessions,
                   root_session, seen_modules, processes, shutdown, exc, idx, thread, ep, kv, log_reader>>

Ping ==
    /\ program = "Main" /\ pc = "read"
    /\ Msg("ping", <<>>) \in Returned
    /\ msg' = Msg("ping", <<>>)
    /\ UNCHANGED <<program, test, peer, permissions, pc, pipe, sessions, x4_root,
                   root_session, seen_modules, processes, shutdown, exc, idx, thread, ep, kv, log_reader>>

\* `restart` handled as a shutdown request: shutdown = True before the break
Restart_ShutsDown ==
    /\ program = "Main" /\ pc = "read"
    /\ Msg("restart", <<>>) \in Returned
    /\ \E p2 \in FinallyClose(pipe) : pipe' = p2
    /\ shutdown' = TRUE
    /\ pc' = AfterFinally(TRUE, processes)
    /\ idx' = 1
    /\ msg' = Msg("restart", <<>>)
    /\ UNCHANGED <<program, test, peer, permissions, sessions, x4_root, root_session,
                   seen_modules, processes, exc, thread, ep, kv, log_reader>>

\* `break`, then the finally block with shutdown still False
Restart ==
    /\ program = "Main" /\ pc = "read"
    /\ Msg("restart", <<>>) \in Returned
    /\ \E p2 \in FinallyClose(pipe) : pipe' = p2
    /\ pc' = "create"
    /\ msg' = Msg("restart", <<>>)
    /\ UNCHANGED <<program, test, peer, permissions, sessions, x4_root, root_session,
                   seen_modules, processes, shutdown, exc, idx, thread, ep, kv, log_reader>>

\* whether the package.path branch assigns x4_root
RootAssigned(segments, root) ==
    IF root # NoRoot
    THEN segments # <<>> /\ FirstLuaUi(Head(segments), Len(Head(segments))) > 0
    ELSE ResolveRoot(segments, root) # NoRoot

PackagePath ==
    /\ program = "Main" /\ pc = "read"
    /\ \E m \in Returned :
          /\ m.head = "package.path:"
          /\ msg' = m
          /\ LET segments == FilterNonEmpty(m.items) IN
             /\ x4_root' = ResolveRoot(segments, x4_root)
             /\ root_session' = IF RootAssigned(segments, x4_root) THEN sessions
                                ELSE root_session
    /\ UNCHANGED <<program, test, peer, permissions, pc, pipe, sessions, seen_modules,
                   processes, shutdown, exc, idx, thread, ep, kv, log_reader>>

Modules ==
    /\ program = "Main" /\ pc = "read"
    /\ x4_root # NoRoot
    /\ \E m \in Returned :
          /\ m.head = "modules:"
          /\ msg' = m
          /\ LET st == DispatchAll(FilterNonEmpty(m.items), x4_root,
                                   [seen |-> seen_modules, procs |-> processes],
                                   permissions) IN
             /\ seen_modules' = st.seen
             /\ processes' = st.procs
    /\ UNCHANGED <<program, test, peer, permissions, pc, pipe, sessions, x4_root,
                   root_session, shutdown, exc, idx, thread, ep, kv, log_reader>>

\* a message no branch matches, or `modules:` while x4_root is None
Ignored ==
    /\ program = "Main" /\ pc = "read"
    /\ \E m \in Returned :
          /\ m \notin {Msg("ping", <<>>), Msg("restart", <<>>)}
          /\ m.head # "package.path:"
          /\ ~(m.head = "modules:" /\ x4_root # NoRoot)
          /\ msg' = m
    /\ UNCHANGED <<program, test, peer, permissions, pc, pipe, sessions, x4_root,
                   root_session, seen_modules, processes, shutdown, exc, idx, thread, ep, kv, log_reader>>

\* pipe.read() raises
ReadRaises ==
    /\ program = "Main" /\ pc = "read"
    /\ \E r \in Received : r.kind = "raise" /\ exc' = r.exc
    /\ pc' = "except"
    /\ msg' = NoMsg
    /\ UNCHANGED <<program, test, peer, permissions, pipe, sessions, x4_root, root_session,
                   seen_modules, processes, shutdown, idx, thread, ep, kv, log_reader>>

\* KeyboardInterrupt raised inside the message loop
Interrupted ==
    /\ program = "Main" /\ pc = "read"
    /\ exc' = KeyboardInterrupt
    /\ pc' = "except"
    /\ msg' = NoMsg
    /\ UNCHANGED <<program, test, peer, permissions, pipe, sessions, x4_root, root_session,
                   seen_modules, processes, shutdown, idx, thread, ep, kv, log_reader>>

\* ExceptDecision with `except Exception` restarting instead of shutting down
ExceptDecision_RestartOnException(e, isTest) ==
    IF e.type \in {"win32api.error", "Client_Garbage_Collected"}
    THEN handle_win32_exception(e, isTest)
    ELSE e.type = "KeyboardInterrupt"

\* the except clauses of run_server
ExceptDecision(e, isTest) ==
    IF e.type \in {"win32api.error", "Client_Garbage_Collected"}
    THEN handle_win32_exception(e, isTest)
    ELSE TRUE

\* an except clause, then the finally block up to `if shutdown:`
HandleException ==
    /\ program = "Main" /\ pc = "except"
    /\ shutdown' = ExceptDecision(exc, test)
    /\ \E p2 \in FinallyClose(pipe) : pipe' = p2
    /\ pc' = AfterFinally(shutdown', processes)
    /\ idx' = 1
    /\ UNCHANGED <<program, test, peer, permissions, sessions, x4_root, root_session,
                   seen_modules, processes, exc, msg, thread, ep, kv, log_reader>>

\* the finally block as a single loop `for p in processes: p.Close(); p.Join()`
CloseStep_Interleaved ==
    /\ program = "Main" /\ pc = "close_all"
    /\ \E w \in ProcJoinWait(ProcClose(processes[idx])) :
          processes' = [processes EXCEPT ![idx] = ProcJoinCheck(w)]
    /\ IF idx = Len(processes)
       THEN pc' = "done" /\ idx' = idx
       ELSE pc' = pc /\ idx' = idx + 1
    /\ UNCHANGED <<program, test, peer, permissions, pipe, sessions, x4_root, root_session,
                   seen_modules, shutdown, exc, msg, thread, ep, kv, log_reader>>

\* one iteration of `for p in processes: p.Close()`
CloseStep ==
    /\ program = "Main" /\ pc = "close_all"
    /\ processes' = [processes EXCEPT ![idx] = ProcClose(@)]
    /\ IF idx = Len(processes)
       THEN pc' = "join_all" /\ idx' = 1
       ELSE pc' = pc /\ idx' = idx + 1
    /\ UNCHANGED <<program, test, peer, permissions, pipe, sessions, x4_root, root_session,
                   seen_modules, shutdown, exc, msg, thread, ep, kv, log_reader>>

\* p.Join(): self.join(timeout)
JoinWait ==
    /\ program = "Main" /\ pc = "join_all"
    /\ \E w \in ProcJoinWait(processes[idx]) :
          processes' = [processes EXCEPT ![idx] = w]
    /\ pc' = "join_check"
    /\ UNCHANGED <<program, test, peer, permissions, pipe, sessions, x4_root, root_session,
                   seen_modules, shutdown, exc, idx, msg, thread, ep, kv, log_reader>>

\* p.Join(): the is_alive() test and terminate(); then the next iteration or return
JoinCheck ==
    /\ program = "Main" /\ pc = "join_check"
    /\ processes' = [processes EXCEPT ![idx] = ProcJoinCheck(@)]
    /\ IF idx = Len(processes)
       THEN pc' = "done" /\ idx' = idx
       ELSE pc' = "join_all" /\ idx' = idx + 1
    /\ UNCHANGED <<program, test, peer, permissions, pipe, sessions, x4_root, root_session,
                   seen_modules, shutdown, exc, msg, thread, ep, kv, log_reader>>

\* a worker's main returns (on its own, or because it saw its stop event)
WorkerExit ==
    /\ MainRunning
    /\ \E i \in 1..Len(processes) :
          /\ processes[i].alive
          /\ processes' = [processes EXCEPT ![i].alive = FALSE]
    /\ UNCHANGED <<program, test, peer, permissions, pc, pipe, sessions, x4_root,
                   root_session, seen_modules, shutdown, exc, idx, msg, thread, ep, kv, log_reader>>

\* SIGINT / SIGTERM: signal_handler calls sys.exit(0); SystemExit is no Exception, so
\* only the finally block runs (with shutdown False inside the try), and the
\* interpreter exits; the workers are daemon processes (daemon=True), which
\* multiprocessing terminates and joins at interpreter exit when still alive
SystemExit == [type |-> "SystemExit", funcname |-> "", winerror |-> ""]

signal_handler ==
    /\ MainRunning
    /\ exc' = SystemExit
    /\ IF pc \in {"connect", "read", "except"}
       THEN \E p2 \in FinallyClose(pipe) : pipe' = p2
       ELSE pipe' = pipe
    /\ processes' = [i \in 1..Len(processes) |->
                        [processes[i] EXCEPT !.alive = FALSE,
                                             !.killed_at_exit = processes[i].alive]]
    /\ pc' = "exited"
    /\ msg' = NoMsg
    /\ UNCHANGED <<program, test, peer, permissions, sessions, x4_root, root_session,
                   seen_modules, shutdown, idx, thread, ep, kv, log_reader>>

MainNext ==
    \/ Create \/ CreateFails \/ Connect \/ ConnectFails \/ pipe_client_test
    \/ Ping \/ Restart \/ PackagePath \/ Modules \/ Ignored
    \/ ReadRaises \/ Interrupted \/ HandleException
    \/ CloseStep \/ JoinWait \/ JoinCheck
    \/ WorkerExit \/ signal_handler

----------------------------------------------------------------------------
(* Server_Thread *)

\* invoked: the call of entry_function inside the try block has been made
NoThread == [pc |-> "unused", boot_server |-> FALSE, stop_event |-> FALSE, runs |-> 0,
             exc |-> NoExc, invoked |-> FALSE]

\* __init__ followed by the first line of run
InitThread == thread = [NoThread EXCEPT !.pc = "while", !.boot_server = TRUE]

\* what entry_function may raise out of the pipe it services
EntryErrors ==
    { Win32Error("ReadFile", "ERROR_BROKEN_PIPE"),
      Win32Error("WriteFile", "ERROR_NO_DATA"),
      Win32Error("CreateNamedPipe", "ERROR_PIPE_BUSY"),
      Client_Garbage_Collected }

\* the except clause restarting on every Win32 error
ThreadExcept_AnyError(e, isTest) ==
    IF isTest THEN FALSE ELSE TRUE

\* the except clause of Server_Thread.run: the new value of boot_server
ThreadExcept(e, isTest) ==
    IF isTest THEN FALSE
    ELSE IF e.type = "Client_Garbage_Collected" THEN TRUE
    ELSE IF e.winerror = "ERROR_BROKEN_PIPE" THEN TRUE
    ELSE FALSE

\* the loop test without the stop event: `while boot_server`
ThreadWhile_IgnoresStop ==
    /\ program = "Server_Thread" /\ thread.pc = "while"
    /\ IF thread.boot_server
       THEN /\ thread.runs < MaxRuns
            /\ thread' = [thread EXCEPT !.pc = "entry", !.boot_server = FALSE,
                                        !.runs = @ + 1]
       ELSE thread' = [thread EXCEPT !.pc = "ended"]
    /\ UNCHANGED <<program, test, peer, permissions, ep, kv, log_reader>> /\ UNCHANGED mainVars

\* `while boot_server and not self.stop_event.is_set()`, then boot_server = False
ThreadWhile ==
    /\ program = "Server_Thread" /\ thread.pc = "while"
    /\ IF thread.boot_server /\ ~thread.stop_event
       THEN /\ thread.runs < MaxRuns
            /\ thread' = [thread EXCEPT !.pc = "entry", !.boot_server = FALSE,
                                        !.runs = @ + 1]
       ELSE thread' = [thread EXCEPT !.pc = "ended"]
    /\ UNCHANGED <<program, test, peer, permissions, ep, kv, log_reader>> /\ UNCHANGED mainVars

\* inside the try block: self.entry_function({...}) is called
EntryCall ==
    /\ program = "Server_Thread" /\ thread.pc = "entry" /\ ~thread.invoked
    /\ thread' = [thread EXCEPT !.invoked = TRUE]
    /\ UNCHANGED <<program, test, peer, permissions, ep, kv, log_reader>> /\ UNCHANGED mainVars

\* entry_function returns: no except clause runs
EntryReturns ==
    /\ program = "Server_Thread" /\ thread.pc = "entry" /\ thread.invoked
    /\ thread' = [thread EXCEPT !.pc = "while", !.exc = NoExc, !.invoked = FALSE]
    /\ UNCHANGED <<program, test, peer, permissions, ep, kv, log_reader>> /\ UNCHANGED mainVars

EntryRaises ==
    /\ program = "Server_Thread" /\ thread.pc = "entry" /\ thread.invoked
    /\ \E e \in EntryErrors :
          thread' = [thread EXCEPT !.pc = "while", !.exc = e, !.invoked = FALSE,
                                   !.boot_server = ThreadExcept(e, test)]
    /\ UNCHANGED <<program, test, peer, permissions, ep, kv, log_reader>> /\ UNCHANGED mainVars

\* any other exception leaves run, and the thread ends
EntryRaisesOther ==
    /\ program = "Server_Thread" /\ thread.pc = "entry" /\ thread.invoked
    /\ thread' = [thread EXCEPT !.pc = "ended", !.exc = OtherException("entry_function"),
                                !.invoked = FALSE]
    /\ UNCHANGED <<program, test, peer, permissions, ep, kv, log_reader>> /\ UNCHANGED mainVars

\* Server_Thread.Close, called from another thread
ThreadClose ==
    /\ program = "Server_Thread"
    /\ ~thread.stop_event
    /\ thread' = [thread EXCEPT !.stop_event = TRUE]
    /\ UNCHANGED <<program, test, peer, permissions, ep, kv, log_reader>> /\ UNCHANGED mainVars

ThreadNext ==
    \/ ThreadWhile \/ EntryCall \/ EntryReturns \/ EntryRaises \/ EntryRaisesOther
    \/ ThreadClose

PeerGone(e) ==
    \/ e.type = "Client_Garbage_Collected"
    \/ e.type = "win32api.error" /\ e.winerror = "ERROR_BROKEN_PIPE"

\* C22: when run comes back to its loop test after an invocation of entry_function,
\* it starts entry_function again if and only if that invocation ended with
\* Client_Garbage_Collected or a broken-pipe error, test mode is off and the stop
\* event is not set; otherwise the thread ends, as it does after a normal return
\* and after any other exception.
C22_LoopTest ==
    /\ program = "Server_Thread" /\ thread.pc = "while" /\ thread.runs >= 1
    /\ thread'.pc # "while"
C22_RestartIffPeerGone ==
    /\ [][C22_LoopTest =>
            /\ thread'.pc \in {"entry", "ended"}
            /\ thread'.pc = "entry" <=>
                  (PeerGone(thread.exc) /\ ~test /\ ~thread.stop_event)]_vars
    /\ [][(program = "Server_Thread" /\ thread.pc = "entry" /\ thread'.pc # "entry") =>
            \/ thread'.pc = "while"
            \/ thread'.pc = "ended" /\ ~PeerGone(thread'.exc)
                                     /\ thread'.exc # NoExc]_vars
C22_Witness ==
    /\ program = "Server_Thread" /\ ~test /\ ~thread.stop_event
    /\ thread.pc = "entry" /\ thread.runs = MaxRuns
    /\ thread.exc = Win32Error("ReadFile", "ERROR_BROKEN_PIPE")

\* C11: a `restart` message can be taken whenever run_server is reading, and the
\* step that takes it leaves shutdown False, calls close() on the channel and goes
\* back to creating a channel, with the workers and the dispatched set untouched;
\* from there run_server's next step creates a fresh channel and waits for a peer
\* (or fails to create one).
C11_RestartStep == program = "Main" /\ pc = "read" /\ msg'.head = "restart"
C11_RestartEndsSessionOnly ==
    /\ [](program = "Main" /\ pc = "read" => ENABLED Restart)
    /\ [][C11_RestartStep =>
            /\ pc' = "create" /\ ~shutdown'
            /\ pipe'.close_called
            /\ processes' = processes /\ seen_modules' = seen_modules]_vars
    /\ [][(pc = "create" /\ msg.head = "restart" /\ pc' \notin {"create", "exited"}) =>
            \/ pc' = "connect" /\ pipe' = NewPipe /\ processes' = processes
                               /\ seen_modules' = seen_modules
            \/ pc' = "except" /\ exc'.funcname = "CreateNamedPipe"]_vars
C11_Witness ==
    /\ pc = "create" /\ msg.head = "restart"
    /\ sessions = 1 /\ ~shutdown /\ pipe.close_called
    /\ x4_root # NoRoot /\ Len(processes) > 0 /\ Len(seen_modules) > Len(processes)

----------------------------------------------------------------------------
(* Properties of root resolution *)

IsLuaUi(name) == name \in {"lua", "Lua", "LUA", "ui", "Ui", "UI"}
Min(S) == CHOOSE x \in S : \A y \in S : x <= y
Max(S) == CHOOSE x \in S : \A y \in S : x >= y

\* the root the segments name: in the first segment having a component called lua or
\* ui, everything before the deepest such component; unknown if there is none
ExpectedRoot(segments) ==
    LET hits(i) == { k \in 1..Len(segments[i]) :
                        IsLuaUi(segments[i][k]) /\ segments[i][k] \notin Anchors }
        matching == { i \in 1..Len(segments) : hits(i) # {} }
    IN  IF matching = {} THEN NoRoot
        ELSE LET seg == segments[Min(matching)]
             IN  SubSeq(seg, 1, Max(hits(Min(matching))) - 1)

ExamplePath ==
    Msg("package.path:", << <<"?.lua">>, <<"C:/", "Game", "lua", "?.lua">>,
                            <<"C:/", "Game", "lua", "?", "init.lua">>, <<>> >>)

\* C15: a package.path message handled while the root is unknown leaves the root at
\* the parent of the deepest lua/ui directory (any letter case) of the first segment
\* that has one, or unknown if no segment has one; for the message
\* package.path:./?.lua;C:/Game/lua/?.lua;C:/Game/lua/?/init.lua; that is C:/Game.
C15_PackagePathStep ==
    /\ program = "Main" /\ pc = "read" /\ pc' = "read" /\ x4_root = NoRoot
    /\ msg'.head = "package.path:"
C15_RootIsFirstMatch ==
    [][C15_PackagePathStep =>
         /\ x4_root' = ExpectedRoot(FilterNonEmpty(msg'.items))
         /\ msg' = ExamplePath => x4_root' = GameRoot]_vars
C15_Witness ==
    /\ pc = "read" /\ x4_root = AltRoot /\ root_session = sessions
    /\ msg = Msg("package.path:", << <<"D:/", "X4", "UI", "?.lua">>,
                                     <<"C:/", "Game", "lua", "?.lua">>, <<>> >>)

----------------------------------------------------------------------------
(* Properties of the permission check *)

\* the workers a step adds
Spawned == { processes'[i].rel : i \in (Len(processes) + 1)..Len(processes') }

\* the id in the manifest of the extension folder of rel, "<no id>" if there is none
ManifestId(root, rel) ==
    LET content == OsPath(root \o SubSeq(rel, 1, 2) \o <<"content.xml">>)
    IN  IF content \in DOMAIN ContentFiles THEN ContentFiles[content] ELSE "<no id>"

HasEntry(root, rel) ==
    /\ Len(rel) >= 2
    /\ ManifestId(root, rel) \in DOMAIN permissions \/ rel[2] \in DOMAIN permissions

\* C12: no step spawns a worker for a module when the permission map has an entry
\* neither for the id in its extension's manifest nor for its extension folder's name.
C12_NoEntryNeverSpawned ==
    [][\A rel \in Spawned : HasEntry(x4_root, rel)]_vars
C12_Witness ==
    /\ pc = "read" /\ msg = Msg("modules:", <<mB, <<>>, mA, <<>>>>)
    /\ x4_root = GameRoot /\ (GameRoot \o mB) \in DOMAIN ModuleFiles
    /\ ~HasEntry(GameRoot, mB)
    /\ Len(processes) = 1 /\ processes[1].rel = mA

\* C13: whenever the permission map has an entry for the id in a module's manifest,
\* the permission decision for the module is the value of that entry, whatever the
\* entry for the folder name says.
C13_IdEntryDecides ==
    \A rel \in {mA, mB, mC, mD, mE} :
        LET id == ManifestId(x4_root, rel) IN
        (x4_root # NoRoot /\ id \in DOMAIN permissions)
            => (check_permission(x4_root, rel, permissions) = permissions[id])

\* the file that root/rel names lies below root/extensions
UnderExtensions(root, rel) ==
    LET file == OsPath(root \o rel)
        dir == root \o <<"extensions">>
    IN  /\ Len(rel) >= 2 /\ rel[1] = "extensions"
        /\ Len(file) > Len(dir) /\ SubSeq(file, 1, Len(dir)) = dir

\* C14: every worker a step spawns is for a module whose relative path begins with
\* extensions/ and whose file lies below the extensions directory of the root.
C14_SpawnedOnlyUnderExtensions ==
    [][\A rel \in Spawned : UnderExtensions(x4_root, rel)]_vars

----------------------------------------------------------------------------
(* Properties of the message loop *)

\* C27: the dispatched set holds exactly the relative paths of the modules for
\* which a worker has been spawned
C27_SeenIsSpawned ==
    program = "Main" =>
        { seen_modules[i] : i \in 1..Len(seen_modules) }
            = { processes[i].rel : i \in 1..Len(processes) }

\* the module root/rel cannot be dispatched: no file, permission denied, import
\* fails, or no main in it
FailsResolution(root, rel) ==
    \/ OsPath(root \o rel) \notin DOMAIN ModuleFiles
    \/ ~check_permission(root, rel, permissions)
    \/ ~HasMain(root \o rel)

\* C28: handling a modules: message leaves the loop reading on the same pipe with
\* the runtime not shut down, whatever modules in it fail resolution; no worker is
\* spawned for a module that fails resolution, and every other path of the message
\* that was not dispatched before gets its worker
C28_ModulesStep ==
    /\ program = "Main" /\ pc = "read" /\ x4_root # NoRoot
    /\ msg'.head = "modules:"
C28_FailedModuleSkipped ==
    [][C28_ModulesStep =>
         LET rels == FilterNonEmpty(msg'.items)
             named == { rels[i] : i \in 1..Len(rels) }
         IN  /\ pc' = "read" /\ shutdown' = shutdown
             /\ pipe' = pipe /\ sessions' = sessions /\ exc' = exc
             /\ \A rel \in named : FailsResolution(x4_root, rel) => rel \notin Spawned
             /\ \A rel \in named :
                   (~FailsResolution(x4_root, rel) /\ ~InSeq(rel, seen_modules))
                       => rel \in Spawned]_vars
C28_Witness ==
    /\ program = "Main" /\ pc = "read" /\ ~shutdown
    /\ msg = Msg("modules:", <<mB, <<>>, mA, <<>>>>)
    /\ x4_root = AltRoot /\ FailsResolution(AltRoot, mB)
    /\ seen_modules = <<mA>>
    /\ Len(processes) = 1 /\ processes[1].rel = mA /\ processes[1].status = "Running"

\* the state of a worker handle
HandleState(w) ==
    IF w.status # "Running" THEN w.status
    ELSE IF w.stop_event THEN "StopRequested" ELSE "Running"
HandleRank(w) == IF w.status # "Running" THEN 3 ELSE IF w.stop_event THEN 2 ELSE 1

\* C29: a worker handle is created started, with its stop event clear; a step never
\* removes a handle, clears a stop event or takes a handle back to an earlier state,
\* and a handle in state Joined or ForceKilled stays there; a handle that has been
\* joined or terminated, by Join or at the exit of the interpreter, has its stop
\* event set
C29_HandleLifecycle ==
    [][/\ program = "Main" => Len(processes') >= Len(processes)
       /\ \A i \in 1..Len(processes') :
             LET w2 == processes'[i] IN
             /\ i > Len(processes) => (HandleState(w2) = "Running" /\ w2.alive)
             /\ i <= Len(processes) =>
                   /\ processes[i].stop_event => w2.stop_event
                   /\ HandleRank(w2) >= HandleRank(processes[i])
                   /\ HandleRank(processes[i]) = 3 => w2.status = processes[i].status
             /\ (w2.join_called \/ w2.status # "Running" \/ w2.killed_at_exit)
                   => w2.stop_event]_vars

\* C30: no handle of a former server endpoint is open; every session starts on
\* an endpoint created for it, with both handles open and close never called; and a
\* message is only ever read from such an endpoint, never from one that close was
\* called on
C30_OneEndpointOpen ==
    /\ [](program = "Main" =>
            /\ pipe.leaked = 0
            /\ pc \in {"connect", "read"} => pipe = NewPipe)
    /\ [][program = "Main" =>
            /\ (pc = "create" /\ pc' = "connect") =>
                  (pipe' = NewPipe /\ sessions' = sessions + 1)
            /\ (msg' # msg /\ msg' # NoMsg) => (pc = "read" /\ pipe = NewPipe)]_vars
C30_Witness ==
    /\ program = "Main" /\ pc = "read" /\ sessions = MaxSessions
    /\ exc = Win32Error("ReadFile", "ERROR_BROKEN_PIPE")
    /\ pipe = NewPipe /\ msg.head = "ping"

\* the place of the first occurrence of rel in rels
FirstIndex(rels, rel) == Min({ k \in 1..Len(rels) : rels[k] = rel })

\* C31: the workers a modules: step starts are appended, and started, in the order
\* in which their paths first appear in the message
C31_SpawnOrderFollowsMessage ==
    [][C28_ModulesStep =>
         LET rels == FilterNonEmpty(msg'.items) IN
         \A i, j \in (Len(processes) + 1)..Len(processes') :
            /\ InSeq(processes'[i].rel, rels)
            /\ i < j => FirstIndex(rels, processes'[i].rel)
                          < FirstIndex(rels, processes'[j].rel)]_vars
C31_Witness ==
    /\ program = "Main" /\ pc = "read"
    /\ msg = Msg("modules:", <<mB, <<>>, mA, <<>>>>)
    /\ Len(processes) = 2 /\ processes[1].rel = mB /\ processes[2].rel = mA
    /\ \A i \in 1..2 : processes[i].status = "Running" /\ ~processes[i].stop_event

\* C32: the handling of a ping, or of a message that is neither ping, restart,
\* package.path: nor modules:, changes neither the root, the dispatched set, the
\* tracked workers, the pipe nor the shutdown flag, and the loop stays at its read
C32_KeepaliveStep ==
    /\ program = "Main" /\ pc = "read"
    /\ msg'.head \in {"ping", "hello"}
    /\ ~WorkerExit
C33_TestPeerDialsBeforeWriting ==
    (program = "Main" /\ test /\ ep.kind = "client" /\ ep.op = "write") =>
        (ep.pipe_out = "open" /\ ep.pipe_in = "open" /\ ep.result.kind = "return")

\* C34, as stated: once the stop event of a Server_Thread is set, no call of
\* entry_function is made
C34_NoCallAfterClose ==
    [][(program = "Server_Thread" /\ thread.stop_event) =>
          ~(~thread.invoked /\ thread'.invoked)]_vars

\* C34, amended: once the stop event is set the loop test never passes again, so
\* the only invocation that can still be made or completed is the one whose loop
\* test passed before; after it the thread ends, also when it ended with a broken
\* pipe or Client_Garbage_Collected
C34_NoLoopPassAfterClose ==
    [][(program = "Server_Thread" /\ thread.stop_event) =>
          /\ thread'.stop_event
          /\ thread'.runs = thread.runs
          /\ thread.pc = "while" => thread'.pc \in {"while", "ended"}
          /\ thread.pc = "ended" => thread'.pc = "ended"]_vars
C34_Witness ==
    /\ program = "Server_Thread" /\ ~test /\ thread.stop_event
    /\ thread.pc = "ended" /\ thread.boot_server
    /\ thread.exc = Win32Error("ReadFile", "ERROR_BROKEN_PIPE")

\* C35: a worker whose main has a parameter is called with the stop event of its
\* own handle as its only argument, and a worker whose main has none is called
\* without arguments
C35_StopEventPassedIfAccepted ==
    [][C28_ModulesStep =>
         \A i \in (Len(processes) + 1)..Len(processes') :
            LET w == processes'[i]
                main_fn == ModuleFiles[OsPath(x4_root \o w.rel)]
            IN  /\ main_fn = "main_with_stop" => w.args = <<[stop_event_of |-> w.rel]>>
                /\ main_fn = "main_no_args" => w.args = <<>>
                /\ ~w.stop_event]_vars
C35_Witness ==
    /\ program = "Main" /\ pc = "done"
    /\ \E i, j \in 1..Len(processes) :
          /\ processes[i].args = <<>> /\ processes[i].stop_event
          /\ processes[j].args = <<[stop_event_of |-> processes[j].rel]>>
          /\ processes[j].stop_event /\ processes[j].status = "Joined"

\* C36: a step never takes a handle out of the tracked list or changes its place;
\* the list is fixed once the shutdown loops have begun; the Close loop and the Join
\* loop have dealt with every handle before the current one; and when run_server
\* returns every tracked worker has been asked to stop and joined and none is alive
C36_TrackedUntilShutdown ==
    /\ [][program = "Main" =>
            /\ Len(processes') >= Len(processes)
            /\ \A i \in 1..Len(processes) : processes'[i].name = processes[i].name
            /\ pc \in {"close_all", "join_all", "join_check", "done"}
                  => Len(processes') = Len(processes)]_vars
    /\ [](program = "Main" =>
            /\ pc \in {"close_all", "join_all", "join_check"} => idx \in 1..Len(processes)
            /\ pc = "close_all" => \A i \in 1..(idx - 1) : processes[i].stop_event
            /\ pc \in {"join_all", "join_check"} =>
                  /\ \A i \in 1..Len(processes) : processes[i].stop_event
                  /\ \A i \in 1..(idx - 1) :
                        processes[i].join_called /\ ~processes[i].alive
            /\ pc = "done" =>
                  \A i \in 1..Len(processes) :
                     /\ processes[i].stop_event /\ processes[i].join_called
                     /\ ~processes[i].alive)
C36_Witness ==
    /\ program = "Main" /\ pc = "done" /\ sessions = MaxSessions
    /\ Len(processes) = 2
    /\ processes[1].status = "ForceKilled" /\ processes[2].status = "Joined"
    /\ exc = KeyboardInterrupt

\* C26: a package.path message handled while the root is known sets the root to
\* the one its own segments name by the first-match rule; only a message without any
\* matching segment leaves the earlier root in place
C26_PackagePathKnownStep ==
    /\ program = "Main" /\ pc = "read" /\ pc' = "read" /\ x4_root # NoRoot
    /\ msg'.head = "package.path:"
C26_RootFollowsLatestPath ==
    [][C26_PackagePathKnownStep =>
         LET named == ExpectedRoot(FilterNonEmpty(msg'.items))
         IN  x4_root' = IF named # NoRoot THEN named ELSE x4_root]_vars

----------------------------------------------------------------------------
(* A Pipe_Server / Pipe_Client endpoint used directly *)

NoEp == [kind |-> "none"]
NoKv == [pc |-> "unused"]
NoLog == [pc |-> "unused"]

TimeoutError == [type |-> "TimeoutError", funcname |-> "", winerror |-> ""]

\* the outcome of a method call: "return", "none" (returns None), "raise", or
\* "retry" (Pipe_Client.connect sleeping before its next attempt)
Outcome(kind, e) == [kind |-> kind, msg |-> BadBytes, exc |-> e]
NoRead == [ok |-> TRUE, data |-> NoMsg, winerror |-> ""]

\* Pipe.__init__: no handles, blocking
NewEp(kind) ==
    [kind |-> kind, pipe_in |-> "none", pipe_out |-> "none", nowait_set |-> FALSE,
     mode_in |-> "wait", mode_out |-> "wait",
     op |-> "new", arg |-> NoRead, result |-> Outcome("return", NoExc),
     attempts |-> 0, closes |-> 0]

EpUnchanged ==
    UNCHANGED <<program, test, peer, permissions, thread, kv, log_reader>> /\ UNCHANGED mainVars

\* an endpoint object the caller holds: a Pipe_Server whose __init__ returned, or
\* a Pipe_Client that is not inside connect()
Usable ==
    /\ program = "Pipe"
    /\ ep.kind = "server" => ep.op # "new" /\ ~(ep.op = "__init__" /\ ep.result.kind = "raise")
    /\ ep.kind = "client" => ~(ep.op = "connect" /\ ep.result.kind = "retry")

CreateErrors == {"ERROR_PIPE_BUSY", "ERROR_ACCESS_DENIED"}

\* Pipe_Server.__init__: CreateNamedPipe for pipe_in, then for pipe_out
Pipe_Server_init ==
    /\ program = "Pipe" /\ ep.kind = "server" /\ ep.op = "new"
    /\ \/ ep' = [ep EXCEPT !.op = "__init__", !.pipe_in = "open", !.pipe_out = "open"]
       \/ \E w \in CreateErrors :
             ep' = [ep EXCEPT !.op = "__init__",
                              !.result = Outcome("raise", Win32Error("CreateNamedPipe", w))]
       \/ \E w \in CreateErrors :
             ep' = [ep EXCEPT !.op = "__init__", !.pipe_in = "open",
                              !.result = Outcome("raise", Win32Error("CreateNamedPipe", w))]
    /\ EpUnchanged

\* Pipe_Server.connect: ConnectNamedPipe on pipe_in, then on pipe_out
Pipe_Server_connect ==
    /\ Usable /\ ep.kind = "server"
    /\ \/ ep' = [ep EXCEPT !.op = "connect", !.arg = NoRead,
                            !.result = Outcome("return", NoExc)]
       \/ \E w \in {"ERROR_NO_DATA", "ERROR_INVALID_HANDLE"} :
             ep' = [ep EXCEPT !.op = "connect", !.arg = NoRead,
                              !.result = Outcome("raise", Win32Error("ConnectNamedPipe", w))]
    /\ EpUnchanged

DialErrors == {"ERROR_FILE_NOT_FOUND", "ERROR_PIPE_BUSY", "ERROR_ACCESS_DENIED"}

\* a CreateFile call that failed with winerror w
Failed(w) == [ok |-> FALSE, data |-> BadBytes, winerror |-> w]

\* the except clause of Pipe_Client.connect retrying on ERROR_FILE_NOT_FOUND only
DialFailure_BusyPropagates(w) ==
    IF w = "ERROR_FILE_NOT_FOUND"
    THEN Outcome("retry", NoExc)
    ELSE Outcome("raise", Win32Error("CreateFile", w))

\* the except clause of Pipe_Client.connect
DialFailure(w) ==
    IF w \in {"ERROR_FILE_NOT_FOUND", "ERROR_PIPE_BUSY"}
    THEN Outcome("retry", NoExc)
    ELSE Outcome("raise", Win32Error("CreateFile", w))

\* one pass of the while loop of Pipe_Client.connect: CreateFile for pipe_out, then
\* for pipe_in; a handle opened before the failure stays in its attribute
Pipe_Client_connect_attempt ==
    /\ program = "Pipe" /\ ep.kind = "client"
    /\ Usable \/ (ep.op = "connect" /\ ep.result.kind = "retry")
    /\ Usable \/ ep.attempts < MaxAttempts
    /\ LET e == [ep EXCEPT !.op = "connect", !.arg = NoRead,
                           !.attempts = IF Usable THEN 1 ELSE @ + 1] IN
       \/ ep' = [e EXCEPT !.pipe_out = "open", !.mode_out = "wait",
                          !.pipe_in = "open", !.mode_in = "wait",
                          !.result = Outcome("return", NoExc)]
       \/ \E w \in DialErrors :
             ep' = [e EXCEPT !.arg = Failed(w), !.result = DialFailure(w)]
       \/ \E w \in DialErrors :
             ep' = [e EXCEPT !.pipe_out = "open", !.mode_out = "wait",
                             !.arg = Failed(w), !.result = DialFailure(w)]
    /\ EpUnchanged

\* `while time.time() < deadline` is false: raise TimeoutError
Pipe_Client_connect_timeout ==
    /\ program = "Pipe" /\ ep.kind = "client"
    /\ Usable \/ (ep.op = "connect" /\ ep.result.kind = "retry")
    /\ ep' = [ep EXCEPT !.op = "connect", !.arg = NoRead,
                        !.attempts = IF Usable THEN 0 ELSE @,
                        !.result = Outcome("raise", TimeoutError)]
    /\ EpUnchanged

\* what ReadFile may do on self.pipe_in
EpReadFileResults(e) ==
    IF e.pipe_in = "open" THEN ReadFileResults
    ELSE { [ok |-> FALSE, data |-> BadBytes, winerror |-> "ERROR_INVALID_HANDLE"] }

\* Pipe.read
read ==
    /\ Usable
    /\ \E r \in EpReadFileResults(ep) :
          ep' = [ep EXCEPT !.op = "read", !.arg = r, !.result = PipeRead(r, ep.nowait_set)]
    /\ EpUnchanged

\* SetNamedPipeHandleState on one handle of the loop: the handle's new mode, or "fail"
SetMode(handle, old, new) == IF handle = "open" THEN {new, "fail"} ELSE {old}

\* the loop over (pipe_in, pipe_out) of set_nonblocking / set_blocking: a handle
\* that is None or closed is skipped, a failure raises and ends the loop, and
\* nowait_set is assigned only after the loop
SetBoth(e, op, new, flag) ==
    { IF i = "fail"
      THEN [e EXCEPT !.op = op, !.arg = NoRead,
                     !.result = Outcome("raise", Win32Error("SetNamedPipeHandleState",
                                                            "ERROR_PIPE_NOT_CONNECTED"))]
      ELSE IF o = "fail"
      THEN [e EXCEPT !.op = op, !.arg = NoRead, !.mode_in = i,
                     !.result = Outcome("raise", Win32Error("SetNamedPipeHandleState",
                                                            "ERROR_PIPE_NOT_CONNECTED"))]
      ELSE [e EXCEPT !.op = op, !.arg = NoRead, !.mode_in = i, !.mode_out = o,
                     !.nowait_set = flag, !.result = Outcome("return", NoExc)] :
        i \in SetMode(e.pipe_in, e.mode_in, new), o \in SetMode(e.pipe_out, e.mode_out, new) }

\* Pipe.set_nonblocking
set_nonblocking ==
    /\ Usable
    /\ IF ep.nowait_set
       THEN ep' = [ep EXCEPT !.op = "set_nonblocking", !.arg = NoRead,
                             !.result = Outcome("return", NoExc)]
       ELSE ep' \in SetBoth(ep, "set_nonblocking", "nowait", TRUE)
    /\ EpUnchanged

\* Pipe.set_blocking
set_blocking ==
    /\ Usable
    /\ ep' \in SetBoth(ep, "set_blocking", "wait", FALSE)
    /\ EpUnchanged

\* the try block of close() on one handle: a handle that is None or already closed
\* is skipped; an open one is released, or stays open if a call before or at
\* CloseHandle raised (the Win32Error is logged)
AfterClose(handle) == IF handle = "open" THEN {"closed", "open"} ELSE {handle}

\* Pipe_Server.close / Pipe_Client.close
close ==
    /\ Usable
    /\ ep.closes < MaxCloses
    /\ \E i \in AfterClose(ep.pipe_in), o \in AfterClose(ep.pipe_out) :
          ep' = [ep EXCEPT !.op = "close", !.arg = NoRead, !.pipe_in = i, !.pipe_out = o,
                           !.closes = @ + 1, !.result = Outcome("return", NoExc)]
    /\ EpUnchanged

InitPipe ==
    /\ program = "Pipe"
    /\ test = FALSE /\ peer = "stock" /\ permissions = ("ws_2042901274" :> TRUE)
    /\ InitMain
    /\ thread = NoThread
    /\ ep \in {NewEp("server"), NewEp("client")}
    /\ kv = NoKv /\ log_reader = NoLog

PipeNext ==
    \/ Pipe_Server_init \/ Pipe_Server_connect
    \/ Pipe_Client_connect_attempt \/ Pipe_Client_connect_timeout
    \/ read \/ set_nonblocking \/ set_blocking \/ close

SpecPipe == InitPipe /\ [][PipeNext]_vars

----------------------------------------------------------------------------
(* Properties of the endpoint *)

JustRead == program = "Pipe" /\ ep.op = "read"

\* C16: a read whose payload is 'garbage_collected' raises Client_Garbage_Collected,
\* whatever nowait_set is, and no read returns that payload as its message.
C16_SentinelRaises ==
    JustRead =>
        /\ (ep.arg.ok /\ ep.arg.data = Sentinel) =>
              (ep.result.kind = "raise" /\ ep.result.exc = Client_Garbage_Collected)
        /\ ep.result.kind = "return" => ep.result.msg # Sentinel
C16_Witness ==
    /\ JustRead /\ ep.nowait_set /\ ep.arg.ok /\ ep.arg.data = Sentinel
    /\ ep.result.exc = Client_Garbage_Collected

\* C17: a read answers None only if nowait_set is on and ReadFile failed with
\* ERROR_NO_DATA; any other ReadFile failure, and ERROR_NO_DATA with nowait_set off,
\* is raised as the Win32 error with the same error code.
C17_NoneOnlyForNoDataNonblocking ==
    JustRead =>
        /\ ep.result.kind = "none" =>
              (ep.nowait_set /\ ~ep.arg.ok /\ ep.arg.winerror = "ERROR_NO_DATA")
        /\ (~ep.arg.ok /\ ~(ep.arg.winerror = "ERROR_NO_DATA" /\ ep.nowait_set)) =>
              /\ ep.result.kind = "raise"
              /\ ep.result.exc.type = "win32api.error"
              /\ ep.result.exc.winerror = ep.arg.winerror
C17_Witness ==
    /\ JustRead /\ ~ep.nowait_set /\ ep.pipe_in = "open"
    /\ ~ep.arg.ok /\ ep.arg.winerror = "ERROR_NO_DATA"
    /\ ep.result.kind = "raise"

Transient == {"ERROR_FILE_NOT_FOUND", "ERROR_PIPE_BUSY"}
Dialing == program = "Pipe" /\ ep.kind = "client" /\ ep.op = "connect"

\* C21: a pass of Pipe_Client.connect either returns with both handles open, or
\* goes on to another pass after a CreateFile failure with ERROR_FILE_NOT_FOUND or
\* ERROR_PIPE_BUSY, or raises the CreateFile error of that same pass when it is any
\* other error, or raises TimeoutError without an attempt; a raised error is never
\* ERROR_FILE_NOT_FOUND or ERROR_PIPE_BUSY, and while connect is retrying its only
\* next steps are another pass or the timeout.
C21_DialOutcomes ==
    /\ [](Dialing =>
            /\ ep.result.kind \in {"return", "retry", "raise"}
            /\ ep.result.kind = "return" =>
                  (ep.arg = NoRead /\ ep.pipe_in = "open" /\ ep.pipe_out = "open")
            /\ ep.result.kind = "retry" => (~ep.arg.ok /\ ep.arg.winerror \in Transient)
            /\ ep.result.kind = "raise" =>
                  \/ ep.result.exc = TimeoutError /\ ep.arg = NoRead
                  \/ /\ ~ep.arg.ok /\ ep.arg.winerror \notin Transient
                     /\ ep.result.exc = Win32Error("CreateFile", ep.arg.winerror)
            /\ ~ep.arg.ok => (ep.arg.winerror \in Transient <=> ep.result.kind = "retry"))
    /\ [][(Dialing /\ ep.result.kind = "retry") => (ep'.op = "connect")]_vars
C21_Witness ==
    /\ Dialing /\ ep.attempts = MaxAttempts
    /\ ep.result.kind = "raise" /\ ep.result.exc = TimeoutError

\* C18: in every state of an endpoint its two handles are both open or both not open.
C18_HandlesOpenTogether ==
    program = "Pipe" => ((ep.pipe_in = "open") <=> (ep.pipe_out = "open"))

\* C19: close() never raises, and when it has returned neither handle is still open.
C19_CloseReleasesBoth ==
    (program = "Pipe" /\ ep.op = "close") =>
        /\ ep.result.kind = "return"
        /\ ep.pipe_in # "open" /\ ep.pipe_out # "open"

\* C20: after set_nonblocking or set_blocking, returned or raised, the two handles of
\* a connected endpoint are in the same mode and nowait_set says which.
C20_ModeSetOnBothOrNeither ==
    (program = "Pipe" /\ ep.op \in {"set_nonblocking", "set_blocking"}
                     /\ ep.pipe_in = "open" /\ ep.pipe_out = "open") =>
        /\ ep.mode_in = ep.mode_out
        /\ ep.nowait_set <=> (ep.mode_in = "nowait")

----------------------------------------------------------------------------
(* Servers/Test1.py: the key-value test server *)

\* text as a sequence of characters
StartsWith(s, prefix) == Len(s) >= Len(prefix) /\ SubSeq(s, 1, Len(prefix)) = prefix
\* s[n:]
From(s, n) == SubSeq(s, n + 1, Len(s))
\* s[n:-1]
Inner(s, n) == SubSeq(s, n + 1, Len(s) - 1)
\* s.split(ch, 1)
Split1(s, ch) ==
    LET at == { i \in 1..Len(s) : s[i] = ch } IN
    IF at = {} THEN <<s>>
    ELSE LET i == CHOOSE x \in at : \A y \in at : x <= y
         IN  <<SubSeq(s, 1, i - 1), SubSeq(s, i + 1, Len(s))>>

write_ == <<"w", "r", "i", "t", "e", ":">>
read_ == <<"r", "e", "a", "d", ":">>
close_ == <<"c", "l", "o", "s", "e">>
food == <<"f", "o", "o", "d">>
bard == <<"b", "a", "r", "d">>

Keys == {food, <<"k">>}
Values == {bard, <<"v">>}
KvWrite(k, v) == write_ \o <<"[">> \o k \o <<"]">> \o v
KvRead(k) == read_ \o <<"[">> \o k \o <<"]">>

\* what a client may send
KvMessages ==
    { KvWrite(k, v) : k \in Keys, v \in Values } \cup { KvRead(k) : k \in Keys }
    \cup { close_, write_ \o <<"k">>, <<"h", "i">> }

NoResponse == <<"<nothing written>">>
NotFound(key) == <<"error: ">> \o key \o <<" not found">>
EmptyStore == [k \in {} |-> <<>>]

\* the branches of the loop body on one message: the new data_store, what is written
\* to the pipe, the exception the except clause logs, and whether the loop breaks
Test1_handle(data_store, message) ==
    LET same == [data_store |-> data_store, response |-> NoResponse,
                 exc |-> NoExc, stop |-> FALSE] IN
    IF message = close_ THEN [same EXCEPT !.stop = TRUE]
    ELSE IF StartsWith(message, write_)
    THEN LET parts == Split1(From(message, 6), "]") IN
         IF Len(parts) # 2 THEN [same EXCEPT !.exc = OtherException("ValueError")]
         ELSE LET key == From(parts[1], 1)
                  value == parts[2]
              IN  [same EXCEPT !.data_store =
                       [k \in DOMAIN data_store \cup {key} |->
                           IF k = key THEN value ELSE data_store[k]]]
    ELSE IF StartsWith(message, read_)
    THEN LET key == Inner(message, 5)
         IN  [same EXCEPT !.response =
                  IF key \in DOMAIN data_store THEN data_store[key] ELSE NotFound(key)]
    ELSE same

\* the methods class Pipe_Server has
PipeMethods == {"read", "write", "set_nonblocking", "set_blocking", "connect", "close"}

NewKv ==
    [pc |-> "start", exc |-> NoExc, data_store |-> EmptyStore, received |-> <<>>,
     response |-> NoResponse, handled |-> NoExc, stopped |-> FALSE]

KvUnchanged ==
    UNCHANGED <<program, test, peer, permissions, thread, ep, log_reader>>
    /\ UNCHANGED mainVars

\* main up to the loop: pipe = Pipe_Server('x4_pipe'); pipe.Connect()
Test1_main ==
    /\ program = "Test1" /\ kv.pc = "start"
    /\ \/ \E w \in CreateErrors :
             kv' = [kv EXCEPT !.pc = "raised", !.exc = Win32Error("CreateNamedPipe", w)]
       \/ kv' = IF "Connect" \in PipeMethods
                THEN [kv EXCEPT !.pc = "loop"]
                ELSE [kv EXCEPT !.pc = "raised", !.exc = OtherException("AttributeError")]
    /\ KvUnchanged

\* the message handling of the loop body (lines 48-59) applied to one more message
Test1_message ==
    /\ program = "Test1" /\ kv.pc = "loop" /\ ~kv.stopped
    /\ Len(kv.received) < MaxMessages
    /\ \E message \in KvMessages :
          LET r == Test1_handle(kv.data_store, message) IN
          kv' = [kv EXCEPT !.data_store = r.data_store, !.response = r.response,
                           !.handled = r.exc, !.stopped = r.stop,
                           !.received = Append(@, message)]
    /\ KvUnchanged

\* main as it is called (pc "start"), and the loop body taken on its own, on
\* messages drawn from KvMessages (pc "loop")
InitKV ==
    /\ program = "Test1"
    /\ test = FALSE /\ peer = "stock" /\ permissions = ("ws_2042901274" :> TRUE)
    /\ InitMain
    /\ thread = NoThread /\ ep = NoEp /\ log_reader = NoLog
    /\ kv \in {NewKv, [NewKv EXCEPT !.pc = "loop"]}

KVNext == Test1_main \/ Test1_message

SpecKV == InitKV /\ [][KVNext]_vars

\* the value of the most recent write:[k]v among the messages, NotFound(k) if none
LastWritten(messages, k) ==
    LET writes == { i \in 1..Len(messages) : \E v \in Values : messages[i] = KvWrite(k, v) }
    IN  IF writes = {} THEN NotFound(k)
        ELSE LET i == CHOOSE x \in writes : \A y \in writes : x >= y
             IN  CHOOSE v \in Values : messages[i] = KvWrite(k, v)

----------------------------------------------------------------------------
(* Classes/Log_Reader.py *)

NL == "\\n"
LogChars == {"a", NL}
UnsupportedOperation == [type |-> "io.UnsupportedOperation", funcname |-> "truncate",
                         winerror |-> ""]

\* self.file.readline() at offset pos: up to and including the next newline, or up
\* to end of file; empty at end of file
NextChunk(file, pos) ==
    LET rest == From(file, pos)
        at == { i \in 1..Len(rest) : rest[i] = NL }
    IN  IF at = {} THEN rest
        ELSE SubSeq(rest, 1, CHOOSE x \in at : \A y \in at : x <= y)

LogResult(kind, line) == [kind |-> kind, line |-> line]

\* __init__: open the file and seek to its end
NewLog(file) ==
    [pc |-> "idle", file |-> file, pos |-> Len(file), partial_line |-> <<>>,
     timeout |-> "None", op |-> "__init__", result |-> LogResult("return", <<>>),
     opened_at |-> Len(file), returned |-> <<>>, trims |-> 0]

LogUnchanged ==
    UNCHANGED <<program, test, peer, permissions, thread, ep, kv>> /\ UNCHANGED mainVars

\* the `if chunk:` branch of readline
GotChunk(lr, chunk) ==
    LET partial == lr.partial_line \o chunk IN
    IF partial[Len(partial)] = NL
    THEN [lr EXCEPT !.pc = "idle", !.pos = @ + Len(chunk), !.partial_line = <<>>,
                    !.result = LogResult("line", SubSeq(partial, 1, Len(partial) - 1)),
                    !.returned = Append(@, SubSeq(partial, 1, Len(partial) - 1))]
    ELSE [lr EXCEPT !.pc = "readline", !.pos = @ + Len(chunk), !.partial_line = partial,
                    !.result = LogResult("waiting", <<>>)]

\* one pass of the while loop of readline(timeout); the first pass is the call
Log_Reader_readline ==
    /\ program = "Log_Reader" /\ log_reader.pc \in {"idle", "readline"}
    /\ \E t \in (IF log_reader.pc = "idle" THEN {"None", "finite"}
                                             ELSE {log_reader.timeout}) :
          LET lr == [log_reader EXCEPT !.timeout = t, !.op = "readline"]
              chunk == NextChunk(lr.file, lr.pos)
          IN  IF chunk # <<>> THEN log_reader' = GotChunk(lr, chunk)
              ELSE \/ /\ t = "finite"      \* time.time() - start_time > timeout
                      /\ log_reader' = [lr EXCEPT !.pc = "idle",
                                                  !.result = LogResult("none", <<>>)]
                   \/ log_reader' = [lr EXCEPT !.pc = "readline",      \* time.sleep(0.1)
                                               !.result = LogResult("waiting", <<>>)]
    /\ LogUnchanged

TrimSizes == {1, 3}

\* trim_log(max_size): the test is on the reader's offset, tell().  The file was
\* opened with mode 'r', so truncate() raises io.UnsupportedOperation right after the
\* second seek(0): the file is unchanged and the offset is left at 0
Log_Reader_trim_log ==
    /\ program = "Log_Reader" /\ log_reader.pc = "idle"
    /\ log_reader.trims < MaxTrims
    /\ \E max_size \in TrimSizes :
          LET lr == [log_reader EXCEPT !.op = "trim_log", !.trims = @ + 1] IN
          IF lr.pos > max_size
          THEN log_reader' = [lr EXCEPT !.pos = 0,
                                        !.result = [kind |-> "raise", line |-> <<>>,
                                                    max_size |-> max_size,
                                                    exc |-> UnsupportedOperation]]
          ELSE log_reader' = [lr EXCEPT !.result = [kind |-> "return", line |-> <<>>,
                                                    max_size |-> max_size, exc |-> NoExc]]
    /\ LogUnchanged

\* another process appends a character to the file
LogAppend ==
    /\ program = "Log_Reader"
    /\ Len(log_reader.file) < MaxFile
    /\ \E c \in LogChars : log_reader' = [log_reader EXCEPT !.file = Append(@, c)]
    /\ LogUnchanged

InitLog ==
    /\ program = "Log_Reader"
    /\ test = FALSE /\ peer = "stock" /\ permissions = ("ws_2042901274" :> TRUE)
    /\ InitMain
    /\ thread = NoThread /\ ep = NoEp /\ kv = NoKv
    /\ log_reader \in { NewLog(<<>>), NewLog(<<"a", NL>>), NewLog(<<"a">>) }

LogNext == Log_Reader_readline \/ Log_Reader_trim_log \/ LogAppend

SpecLog == InitLog /\ [][LogNext]_vars

(* Properties of the log reader *)

RECURSIVE CompleteLines(_)
\* the newline-terminated lines of a text, in order, without their newlines
CompleteLines(s) ==
    LET chunk == NextChunk(s, 0) IN
    IF chunk = <<>> \/ chunk[Len(chunk)] # NL THEN <<>>
    ELSE <<SubSeq(chunk, 1, Len(chunk) - 1)>> \o CompleteLines(From(s, Len(chunk)))

RECURSIVE JoinLines(_)
JoinLines(ls) == IF ls = <<>> THEN <<>> ELSE ls[1] \o <<NL>> \o JoinLines(Tail(ls))

IsPrefix(a, b) == Len(a) <= Len(b) /\ a = SubSeq(b, 1, Len(a))

Appended == From(log_reader.file, log_reader.opened_at)

\* C24: the lines readline has returned are, in order and once each, the first
\* complete newline-terminated lines of the data appended to the file since the
\* reader was opened; what it has consumed beyond them is kept in partial_line and
\* not returned before its newline; it returns None only for a finite timeout
C24_ReadlineReturnsAppendedLines ==
    program = "Log_Reader" =>
        /\ IsPrefix(log_reader.returned, CompleteLines(Appended))
        /\ IsPrefix(JoinLines(log_reader.returned) \o log_reader.partial_line, Appended)
        /\ NL \notin { log_reader.partial_line[i] : i \in 1..Len(log_reader.partial_line) }
        /\ log_reader.result.kind = "none" => log_reader.timeout = "finite"

TrimStep == program = "Log_Reader" /\ log_reader'.trims = log_reader.trims + 1

\* C25: trim_log on a file longer than max_size leaves exactly the last max_size
\* characters in it and the reader at end of file, returning normally; on a file
\* not longer than max_size it changes neither the file nor the reader's offset
C25_TrimKeepsTail ==
    [][TrimStep =>
         LET max_size == log_reader'.result.max_size
             file == log_reader.file
         IN  IF Len(file) > max_size
             THEN /\ log_reader'.file = From(file, Len(file) - max_size)
                  /\ log_reader'.pos = Len(log_reader'.file)
                  /\ log_reader'.result.kind = "return"
             ELSE /\ log_reader'.file = file
                  /\ log_reader'.pos = log_reader.pos]_vars

----------------------------------------------------------------------------
(* The specification *)

Init ==
    /\ program \in {"Main", "Server_Thread"}
    /\ test \in BOOLEAN
    /\ IF program = "Main"
       THEN /\ peer \in {"stock", "crafted"}
            /\ permissions \in PermissionMaps
            /\ InitMain
            /\ thread = NoThread
            /\ ep = NoEp /\ kv = NoKv /\ log_reader = NoLog
       ELSE /\ peer = "stock"
            /\ permissions = ("ws_2042901274" :> TRUE)
            /\ InitMain
            /\ InitThread
            /\ ep = NoEp /\ kv = NoKv /\ log_reader = NoLog

Next == MainNext \/ ThreadNext

Spec == Init /\ [][Next]_vars

----------------------------------------------------------------------------
(* Properties of the supervisor runtime *)

Workers == 1..Len(processes)
ShutdownPcs == {"close_all", "join_all", "join_check", "done"}
AllStoppedAndJoined ==
    \A i \in Workers : processes[i].stop_event /\ processes[i].join_called
                       /\ processes[i].status # "Running"
Recoverable(e) ==
    \/ e.type = "Client_Garbage_Collected"
    \/ e.type = "win32api.error" /\ e.winerror = "ERROR_BROKEN_PIPE"

\* C1: at most one worker is ever spawned per module relative path, and a step
\* never spawns a worker for a path that is already in seen_modules.
C1_DispatchedAtMostOnce ==
    /\ [](\A i, j \in Workers : processes[i].rel = processes[j].rel => i = j)
    /\ [][\A i \in 1..Len(processes') :
            i > Len(processes) => ~InSeq(processes'[i].rel, seen_modules)]_vars

\* C1 witness: a reconnected session with the root known again and workers running,
\* where re-announcing their modules is possible.
C1_Witness ==
    /\ pc = "read" /\ sessions = 2 /\ x4_root = GameRoot
    /\ Len(processes) = 2 /\ InSeq(mA, seen_modules)

\* C2: seen_modules never loses an element, whatever step is taken (disconnects and
\* reconnects included).
C2_SeenNeverShrinks ==
    [][\A i \in 1..Len(seen_modules) : InSeq(seen_modules[i], seen_modules')]_vars

\* C2 witness: PeerTornDown ended the first session, a second one has been accepted,
\* and the module dispatched earlier is still in seen_modules.
C2_Witness ==
    /\ pc = "read" /\ sessions = 2 /\ exc = Client_Garbage_Collected
    /\ InSeq(mA, seen_modules) /\ Len(processes) >= 1

\* C3: whenever the runtime has stopped (run_server returned, or the process left
\* through sys.exit), every tracked worker was asked to stop and joined.
C3_StoppedAndJoinedOnEveryExit ==
    pc \in {"done", "exited"} => AllStoppedAndJoined

\* C4: Join is called on a handle only once Close has been called on every handle.
C4_StopAllBeforeJoinAny ==
    \A i \in Workers :
        processes[i].join_called => \A j \in Workers : processes[j].stop_event

\* C4 witness: the first of two workers is being joined.
C4_Witness ==
    /\ pc = "join_check" /\ idx = 1 /\ Len(processes) = 2
    /\ processes[1].join_called /\ ~processes[2].join_called

\* C5: Join never blocks on the worker (each of its steps is enabled whatever the
\* worker does); once it has returned the worker is not alive, and the worker was
\* terminated only if it was alive when the timeout elapsed.
C5_JoinReturnsWorkerDead ==
    /\ pc = "join_all" => ENABLED JoinWait
    /\ pc = "join_check" => ENABLED JoinCheck
    /\ \A i \in Workers :
          processes[i].status # "Running" =>
             /\ ~processes[i].alive
             /\ processes[i].join_called
             /\ processes[i].status = "ForceKilled" => processes[i].alive_at_timeout

\* C5 witness: a worker that takes no stop event was still alive at the timeout and
\* was terminated.
C5_Witness ==
    \E i \in Workers :
        /\ processes[i].status = "ForceKilled"
        /\ ~processes[i].takes_stop

\* C6: a step that spawns a worker or adds to seen_modules starts from a root that a
\* package.path message of the current session assigned; and every session starts
\* with the root unknown.
C6_DispatchAfterPackagePath ==
    [][/\ (Len(processes') > Len(processes) \/ Len(seen_modules') > Len(seen_modules))
          => (x4_root # NoRoot /\ root_session = sessions)
       /\ (pc = "connect" /\ pc' = "read") => x4_root' = NoRoot]_vars

\* C6 witness: in the second session the root was resolved again and a worker runs.
C6_Witness ==
    /\ pc = "read" /\ sessions = 2 /\ root_session = 2 /\ x4_root = AltRoot
    /\ Len(processes) >= 1

C8_CreateFailureIsFatal ==
    (exc.funcname = "CreateNamedPipe" /\ pc # "except") =>
        /\ shutdown
        /\ pc \in ShutdownPcs
        /\ pc = "done" => AllStoppedAndJoined

\* C8 witness: the second channel could not be created; run_server returned with
\* its workers joined.
C8_Witness ==
    /\ pc = "done" /\ exc.funcname = "CreateNamedPipe" /\ sessions = 1
    /\ Len(processes) >= 1

\* C9: once an exception that is neither win32api.error nor Client_Garbage_Collected
\* (nor KeyboardInterrupt / SystemExit) has been handled, the runtime is shutting
\* down, creates no channel, and returns with every tracked worker stopped and joined.
C9_UnclassifiedExceptionIsFatal ==
    (exc.type = "Exception" /\ pc # "except") =>
        /\ shutdown
        /\ pc \in ShutdownPcs
        /\ pc = "done" => AllStoppedAndJoined

\* C9 witness: run_server returned after an undecodable message, workers joined.
C9_Witness ==
    /\ pc = "done" /\ exc = OtherException("UnicodeDecodeError") /\ ~test
    /\ Len(processes) >= 1

\* C10: in test mode, once a channel error or PeerTornDown has been handled,
\* run_server is shutting down (no channel is created again), and Server_Thread.run
\* does not call entry_function again.
C10_TestModeNoRestart ==
    /\ (test /\ exc.type \in {"win32api.error", "Client_Garbage_Collected"}
             /\ pc # "except")
          => (shutdown /\ pc \in ShutdownPcs)
    /\ (test /\ thread.exc.type \in {"win32api.error", "Client_Garbage_Collected"})
          => (~thread.boot_server /\ thread.pc \in {"while", "ended"}
              /\ thread.runs = 1)

\* C10 witness: in test mode a broken pipe ended the first session and run_server
\* returned without a second channel.
C10_Witness ==
    /\ test /\ pc = "done" /\ sessions = 1
    /\ exc = Win32Error("ReadFile", "ERROR_BROKEN_PIPE")

====
